---- MODULE Spec2Model ----
(***************************************************************************)
(* get-many-mut: a stable polyfill for slice::get_many_mut (src/lib.rs).   *)
(*                                                                         *)
(* The model follows one caller holding a slice `s` and an index array     *)
(* `indices`.  The caller calls get_many_mut (the checked entry point) or  *)
(* get_many_unchecked_mut (the unchecked one), writes through the returned *)
(* references and releases them.  get_many_check_valid is modelled loop    *)
(* iteration by loop iteration, with a counter of the comparisons it made. *)
(* A pointer into the slice is the offset of the cell it points to.        *)
(***************************************************************************)
EXTENDS Integers, Sequences, FiniteSets, TLC

\* Bounds of the model.
MaxLen == 3      \* longest slice
MaxN == 3        \* longest index array

\* The element type T is generic and the code never reads or compares a cell:
\* two values tell a written cell from an untouched one.
Values == {0, 1}
\* Index values: 0..MaxLen, so that an index equal to the length of the
\* longest slice, and indices above the length of the shorter ones, occur.
Indexes == 0..MaxLen

SeqsOfLen(S, n) == [1..n -> S]
SeqsUpTo(S, n) == UNION {SeqsOfLen(S, k) : k \in 0..n}

\* A slot of the MaybeUninit array that has not been written yet.
Uninit == -1

VARIABLES
    s,          \* the slice: a sequence of cell values
    indices,    \* the caller's index array, [usize; N]
    pc,         \* where the call is
    entry,      \* which entry point the caller used
    uidx,       \* get_many_unchecked_mut's by-value parameter `indices`
    i,          \* outer loop counter (check) / loop counter (construction)
    j,          \* inner loop counter of the check
    valid,      \* the accumulator of get_many_check_valid
    cmps,       \* number of comparison operations the check has made
    ret,        \* the value get_many_check_valid returned
    arr,        \* the MaybeUninit array of references under construction
    result,     \* what the entry point returned
    s0,         \* the slice as it was when the call started
    lastWrite,  \* the last write through a returned reference
    last        \* the outcome of the previous completed call

vars == <<s, indices, pc, entry, uidx, i, j, valid, cmps, ret, arr, result,
          s0, lastWrite, last>>

N == Len(indices)

NoResult == [kind |-> "none", refs |-> <<>>]
NoWrite == [ref |-> 0, val |-> 0, before |-> <<>>]
NoLast == [entry |-> "none", kind |-> "none", refs |-> <<>>]

Init ==
    /\ s \in SeqsUpTo(Values, MaxLen)
    /\ indices \in SeqsUpTo(Indexes, MaxN)
    /\ pc = "idle"
    /\ entry = "none"
    /\ uidx = <<>>
    /\ i = 0
    /\ j = 0
    /\ valid = TRUE
    /\ cmps = 0
    /\ ret = TRUE
    /\ arr = <<>>
    /\ result = NoResult
    /\ s0 = s
    /\ lastWrite = NoWrite
    /\ last = NoLast

(***************************************************************************)
(* get_many_mut: the checked entry point                                   *)
(***************************************************************************)

\* The caller calls get_many_mut(indices); it calls get_many_check_valid.
CallGetManyMut ==
    /\ pc = "idle"
    /\ entry' = "checked"
    /\ s0' = s
    /\ pc' = "check_entry"
    /\ UNCHANGED <<s, indices, uidx, i, j, valid, cmps, ret, arr, result,
                   lastWrite, last>>

\* A wrong initial accumulator: let mut valid = false.
CheckEnterFalse ==
    /\ pc = "check_entry"
    /\ valid' = FALSE
    /\ i' = 0
    /\ j' = 0
    /\ cmps' = 0
    /\ pc' = "check_outer"
    /\ UNCHANGED <<s, indices, entry, uidx, ret, arr, result, s0, lastWrite,
                   last>>

\* let mut valid = true; and the start of the enumerate() loop.
CheckEnter ==
    /\ pc = "check_entry"
    /\ valid' = TRUE
    /\ i' = 0
    /\ j' = 0
    /\ cmps' = 0
    /\ pc' = "check_outer"
    /\ UNCHANGED <<s, indices, entry, uidx, ret, arr, result, s0, lastWrite,
                   last>>

\* Off by one: valid &= idx <= len.
CheckOuterLe ==
    /\ pc = "check_outer"
    /\ i < N
    /\ valid' = (valid /\ (indices[i + 1] <= Len(s)))
    /\ cmps' = cmps + 1
    /\ j' = 0
    /\ pc' = "check_inner"
    /\ UNCHANGED <<s, indices, entry, uidx, i, ret, arr, result, s0,
                   lastWrite, last>>

\* Assignment in place of accumulation: valid = idx < len.
CheckOuterAssign ==
    /\ pc = "check_outer"
    /\ i < N
    /\ valid' = (indices[i + 1] < Len(s))
    /\ cmps' = cmps + 1
    /\ j' = 0
    /\ pc' = "check_inner"
    /\ UNCHANGED <<s, indices, entry, uidx, i, ret, arr, result, s0,
                   lastWrite, last>>

\* The inner loop runs over indices[1..i]: the first index is never compared.
CheckOuterSkipFirst ==
    /\ pc = "check_outer"
    /\ i < N
    /\ valid' = (valid /\ (indices[i + 1] < Len(s)))
    /\ cmps' = cmps + 1
    /\ j' = 1
    /\ pc' = "check_inner"
    /\ UNCHANGED <<s, indices, entry, uidx, i, ret, arr, result, s0,
                   lastWrite, last>>

\* Short-circuit: return false at the first failing bounds comparison.
CheckOuterShort ==
    /\ pc = "check_outer"
    /\ i < N
    /\ valid' = (valid /\ (indices[i + 1] < Len(s)))
    /\ cmps' = cmps + 1
    /\ j' = 0
    /\ IF valid'
         THEN pc' = "check_inner" /\ ret' = ret
         ELSE pc' = "branch" /\ ret' = FALSE
    /\ UNCHANGED <<s, indices, entry, uidx, i, arr, result, s0, lastWrite,
                   last>>

\* One iteration of the outer loop: valid &= idx < len; then the inner loop
\* over &indices[..i] starts.
CheckOuter ==
    /\ pc = "check_outer"
    /\ i < N
    /\ valid' = (valid /\ (indices[i + 1] < Len(s)))
    /\ cmps' = cmps + 1
    /\ j' = 0
    /\ pc' = "check_inner"
    /\ UNCHANGED <<s, indices, entry, uidx, i, ret, arr, result, s0,
                   lastWrite, last>>

\* Assignment in place of accumulation: valid = idx != idx2.
CheckInnerAssign ==
    /\ pc = "check_inner"
    /\ j < i
    /\ valid' = (indices[i + 1] # indices[j + 1])
    /\ cmps' = cmps + 1
    /\ j' = j + 1
    /\ UNCHANGED <<s, indices, pc, entry, uidx, i, ret, arr, result, s0,
                   lastWrite, last>>

\* One iteration of the inner loop: valid &= idx != idx2.
CheckInner ==
    /\ pc = "check_inner"
    /\ j < i
    /\ valid' = (valid /\ (indices[i + 1] # indices[j + 1]))
    /\ cmps' = cmps + 1
    /\ j' = j + 1
    /\ UNCHANGED <<s, indices, pc, entry, uidx, i, ret, arr, result, s0,
                   lastWrite, last>>

\* The inner loop is exhausted; the outer loop goes to the next index.
CheckInnerEnd ==
    /\ pc = "check_inner"
    /\ j >= i
    /\ i' = i + 1
    /\ pc' = "check_outer"
    /\ UNCHANGED <<s, indices, entry, uidx, j, valid, cmps, ret, arr, result,
                   s0, lastWrite, last>>

\* The outer loop is exhausted; get_many_check_valid returns valid.
CheckReturn ==
    /\ pc = "check_outer"
    /\ i >= N
    /\ ret' = valid
    /\ pc' = "branch"
    /\ UNCHANGED <<s, indices, entry, uidx, i, j, valid, cmps, arr, result,
                   s0, lastWrite, last>>

RECURSIVE Reverse(_)
Reverse(q) == IF q = <<>> THEN <<>> ELSE Append(Reverse(Tail(q)), Head(q))

\* The index array reaches get_many_unchecked_mut in reverse order.
BranchOkReversed ==
    /\ pc = "branch"
    /\ ret
    /\ uidx' = Reverse(indices)
    /\ pc' = "unchecked_entry"
    /\ UNCHANGED <<s, indices, entry, i, j, valid, cmps, ret, arr, result,
                   s0, lastWrite, last>>

\* if get_many_check_valid(..) { get_many_unchecked_mut(self, indices) }
BranchOk ==
    /\ pc = "branch"
    /\ ret
    /\ uidx' = indices
    /\ pc' = "unchecked_entry"
    /\ UNCHANGED <<s, indices, entry, i, j, valid, cmps, ret, arr, result,
                   s0, lastWrite, last>>

\* Invalid input panics (as slice indexing would) instead of returning Err.
BranchErrPanic ==
    /\ pc = "branch"
    /\ ~ret
    /\ pc' = "panicked"
    /\ UNCHANGED <<s, indices, entry, uidx, i, j, valid, cmps, ret, arr,
                   result, s0, lastWrite, last>>

\* else { Err(GetManyMutError) }
BranchErr ==
    /\ pc = "branch"
    /\ ~ret
    /\ result' = [kind |-> "Err", refs |-> <<>>]
    /\ pc' = "returned"
    /\ UNCHANGED <<s, indices, entry, uidx, i, j, valid, cmps, ret, arr, s0,
                   lastWrite, last>>

\* Ok(..) around the array get_many_unchecked_mut returned.
WrapOk ==
    /\ pc = "wrap_ok"
    /\ result' = [result EXCEPT !.kind = "Ok"]
    /\ pc' = "returned"
    /\ UNCHANGED <<s, indices, entry, uidx, i, j, valid, cmps, ret, arr, s0,
                   lastWrite, last>>

(***************************************************************************)
(* get_many_unchecked_mut: the unchecked entry point                       *)
(***************************************************************************)

\* The caller calls get_many_unchecked_mut(indices) directly.
CallGetManyUncheckedMut ==
    /\ pc = "idle"
    /\ entry' = "unchecked"
    /\ s0' = s
    /\ uidx' = indices
    /\ pc' = "unchecked_entry"
    /\ UNCHANGED <<s, indices, i, j, valid, cmps, ret, arr, result, lastWrite,
                   last>>

\* ptr = self.as_mut_ptr(); arr = MaybeUninit::uninit(); arr_ptr = ..cast()
UncheckedEnter ==
    /\ pc = "unchecked_entry"
    /\ arr' = [k \in 1..Len(uidx) |-> Uninit]
    /\ i' = 0
    /\ pc' = "build"
    /\ UNCHANGED <<s, indices, entry, uidx, j, valid, cmps, ret, result, s0,
                   lastWrite, last>>

\* The pointer &mut *ptr.add(idx) would be: the offset of the cell.
\* Sound only when idx is in bounds and no reference to the cell exists yet.
Sound(idx) ==
    /\ idx < Len(s)
    /\ \A k \in 1..Len(arr) : arr[k] # idx

\* The loop counter is used as the offset: &mut *ptr.add(i).
BuildStepLoopIdx ==
    /\ pc = "build"
    /\ i < Len(uidx)
    /\ IF Sound(i)
         THEN /\ arr' = [arr EXCEPT ![i + 1] = i]
              /\ i' = i + 1
              /\ pc' = pc
         ELSE /\ pc' = "undefined"
              /\ UNCHANGED <<arr, i>>
    /\ UNCHANGED <<s, indices, entry, uidx, j, valid, cmps, ret, result, s0,
                   lastWrite, last>>

\* The array is filled from its end: *arr_ptr.add(N - 1 - i) = ..
BuildStepReversed ==
    /\ pc = "build"
    /\ i < Len(uidx)
    /\ IF Sound(uidx[i + 1])
         THEN /\ arr' = [arr EXCEPT ![Len(uidx) - i] = uidx[i + 1]]
              /\ i' = i + 1
              /\ pc' = pc
         ELSE /\ pc' = "undefined"
              /\ UNCHANGED <<arr, i>>
    /\ UNCHANGED <<s, indices, entry, uidx, j, valid, cmps, ret, result, s0,
                   lastWrite, last>>

\* One iteration of for i in 0..N:
\*     let idx = indices[i]; *arr_ptr.add(i) = &mut *ptr.add(idx);
\* Out of bounds or overlapping, the behaviour is undefined.
BuildStep ==
    /\ pc = "build"
    /\ i < Len(uidx)
    /\ IF Sound(uidx[i + 1])
         THEN /\ arr' = [arr EXCEPT ![i + 1] = uidx[i + 1]]
              /\ i' = i + 1
              /\ pc' = pc
         ELSE /\ pc' = "undefined"
              /\ UNCHANGED <<arr, i>>
    /\ UNCHANGED <<s, indices, entry, uidx, j, valid, cmps, ret, result, s0,
                   lastWrite, last>>

\* arr.assume_init(): undefined unless every slot has been written.
BuildReturn ==
    /\ pc = "build"
    /\ i >= Len(uidx)
    /\ IF \A k \in 1..Len(arr) : arr[k] # Uninit
         THEN /\ result' = [kind |-> "Refs", refs |-> arr]
              /\ pc' = IF entry = "checked" THEN "wrap_ok" ELSE "returned"
         ELSE /\ pc' = "undefined"
              /\ result' = result
    /\ UNCHANGED <<s, indices, entry, uidx, i, j, valid, cmps, ret, arr, s0,
                   lastWrite, last>>

\* After undefined behaviour the program may do anything to the slice.
Undefined ==
    /\ pc = "undefined"
    /\ s' \in SeqsOfLen(Values, Len(s))
    /\ s' # s
    /\ UNCHANGED <<indices, pc, entry, uidx, i, j, valid, cmps, ret, arr,
                   result, s0, lastWrite, last>>

(***************************************************************************)
(* The caller                                                              *)
(***************************************************************************)

\* *a = v through the r-th returned reference.
WriteThrough ==
    /\ pc = "returned"
    /\ result.kind \in {"Ok", "Refs"}
    /\ \E r \in 1..Len(result.refs), v \in Values :
         /\ s' = [s EXCEPT ![result.refs[r] + 1] = v]
         /\ lastWrite' = [ref |-> r, val |-> v, before |-> s]
    /\ UNCHANGED <<indices, pc, entry, uidx, i, j, valid, cmps, ret, arr,
                   result, s0, last>>

\* The returned value goes out of scope; the slice is usable again.
Release ==
    /\ pc = "returned"
    /\ last' = [entry |-> entry, kind |-> result.kind, refs |-> result.refs]
    /\ pc' = "idle"
    /\ entry' = "none"
    /\ uidx' = <<>>
    /\ i' = 0
    /\ j' = 0
    /\ valid' = TRUE
    /\ cmps' = 0
    /\ ret' = TRUE
    /\ arr' = <<>>
    /\ result' = NoResult
    /\ s0' = s
    /\ lastWrite' = NoWrite
    /\ UNCHANGED <<s, indices>>

Next ==
    \/ CallGetManyMut
    \/ CheckEnter
    \/ CheckOuter
    \/ CheckInner
    \/ CheckInnerEnd
    \/ CheckReturn
    \/ BranchOk
    \/ BranchErr
    \/ WrapOk
    \/ CallGetManyUncheckedMut
    \/ UncheckedEnter
    \/ BuildStep
    \/ BuildReturn
    \/ Undefined
    \/ WriteThrough
    \/ Release

Spec == Init /\ [][Next]_vars

(***************************************************************************)
(* Properties                                                              *)
(***************************************************************************)

\* What the documentation calls a valid input.
InBounds == \A k \in 1..N : indices[k] < Len(s)
Distinct == \A a, b \in 1..N : a # b => indices[a] # indices[b]
ValidInput == InBounds /\ Distinct

\* The checked call is past the check and has not returned an error.
Constructing == pc \in {"unchecked_entry", "build", "wrap_ok", "undefined"}
ReturnedOk == pc = "returned" /\ result.kind = "Ok"
ReturnedErr == pc = "returned" /\ result.kind = "Err"
Checked == entry = "checked"

\* C1: when get_many_check_valid has returned, its value is true if and only
\* if every index is below len and the indices are pairwise distinct.
C1_CheckValidIff ==
    (Checked /\ pc = "branch") => (ret <=> ValidInput)

C1_Witness ==
    /\ Checked /\ pc = "branch" /\ N = MaxN
    /\ ~ret /\ InBounds /\ ~Distinct

\* C2: on a valid input get_many_mut succeeds, and a write through the r-th
\* returned reference sets the cell at indices[r] to the written value and
\* leaves every other cell of the slice as it was.
C2_WriteHitsOnlyItsCell ==
    (Checked /\ ValidInput) =>
        /\ pc \notin {"undefined", "panicked"}
        /\ pc = "returned" =>
             /\ result.kind = "Ok"
             /\ lastWrite.ref # 0 =>
                  /\ Len(s) = Len(lastWrite.before)
                  /\ s[indices[lastWrite.ref] + 1] = lastWrite.val
                  /\ \A p \in 1..Len(s) :
                       p # indices[lastWrite.ref] + 1
                         => s[p] = lastWrite.before[p]

C2_Witness ==
    /\ Checked /\ ValidInput /\ ReturnedOk
    /\ N >= 2 /\ indices[1] > indices[2]
    /\ lastWrite.ref = 2
    /\ s # lastWrite.before

\* C3: when the index array holds a repeated value and the slice has at
\* least one cell, get_many_mut never reaches the construction of the
\* references, and what it returns is the error value.
C3_DuplicateRejected ==
    (Checked /\ ~Distinct /\ Len(s) >= 1) =>
        /\ ~Constructing
        /\ pc = "returned" => result.kind = "Err"

C3_Witness ==
    /\ Checked /\ ReturnedErr /\ Len(s) >= 1
    /\ N = 3 /\ InBounds
    /\ indices[1] = indices[3] /\ indices[1] # indices[2]

\* C4: when some index is greater than or equal to the length of the slice
\* (always so for a non-empty index array and an empty slice), get_many_mut
\* never reaches the construction of the references, and what it returns is
\* the error value.
C4_OutOfBoundsRejected ==
    (Checked /\ ~InBounds) =>
        /\ ~Constructing
        /\ pc = "returned" => result.kind = "Err"

C4_Witness ==
    /\ Checked /\ ReturnedErr
    /\ Len(s) = 0 /\ N >= 1

\* C5: on success the k-th returned reference points at the cell indices[k],
\* for every k, whatever the order of the indices.
C5_OrderPreserved ==
    (Checked /\ ReturnedOk) =>
        /\ Len(result.refs) = N
        /\ \A k \in 1..N : result.refs[k] = indices[k]

C5_Witness ==
    /\ Checked /\ ReturnedOk
    /\ N = 3 /\ indices[1] > indices[2] /\ indices[3] > indices[1]

\* C6: on a valid input, a call through one entry point returns references
\* to the same cells, in the same order, as the preceding call through the
\* other entry point on the same slice and index array.
C6_CheckedEqualsUnchecked ==
    (pc = "returned" /\ ValidInput
       /\ last.entry # "none" /\ last.entry # entry) =>
        /\ result.kind \in {"Ok", "Refs"}
        /\ last.kind \in {"Ok", "Refs"}
        /\ result.refs = last.refs

C6_Witness ==
    /\ pc = "returned" /\ ValidInput
    /\ Checked /\ last.entry = "unchecked"
    /\ N >= 2 /\ indices[1] > indices[2]

\* C7: with an empty index array get_many_mut returns Ok with an empty array
\* of references, for every slice, the empty one included.
C7_ZeroCount ==
    (Checked /\ N = 0) =>
        /\ pc \notin {"undefined", "panicked"}
        /\ pc = "returned" => (result.kind = "Ok" /\ Len(result.refs) = 0)

C7_Witness ==
    /\ Checked /\ N = 0 /\ Len(s) = 0 /\ ReturnedOk

\* C8: get_many_mut never panics and never runs into undefined behaviour;
\* it returns Ok or Err, and when it returns Err the slice has the length
\* and the cell values it had when the call started.
C8_NoPanicErrLeavesSlice ==
    Checked =>
        /\ pc \notin {"undefined", "panicked"}
        /\ pc = "returned" => result.kind \in {"Ok", "Err"}
        /\ ReturnedErr => s = s0

C8_Witness ==
    /\ Checked /\ ReturnedErr
    /\ Len(s) >= 1 /\ s = s0 /\ \E p \in 1..Len(s) : s[p] # 0

\* C9: whenever get_many_mut is inside get_many_unchecked_mut, the index
\* array it passed is in bounds and pairwise distinct, and the references
\* built so far point inside the slice and at pairwise different cells.
C9_ConstructionOnlyWhenValid ==
    (Checked /\ Constructing) =>
        /\ ValidInput
        /\ pc # "undefined"
        /\ \A k \in 1..Len(arr) :
             arr[k] # Uninit => (arr[k] >= 0 /\ arr[k] < Len(s))
        /\ \A a, b \in 1..Len(arr) :
             (a # b /\ arr[a] # Uninit) => arr[a] # arr[b]

C9_Witness ==
    /\ Checked /\ pc = "build" /\ N = MaxN /\ i = N
    /\ indices[1] > indices[2]

\* C10: when get_many_check_valid returns, it has made N bounds comparisons
\* and N*(N-1)/2 pairwise comparisons, N*(N+1)/2 in all, whether or not a
\* comparison failed; until then the loops have not been left.
C10_FixedComparisonCount ==
    /\ (Checked /\ pc = "branch") => cmps = (N * (N + 1)) \div 2
    /\ (Checked /\ pc \in {"check_outer", "check_inner"}) =>
          cmps = (i * (i + 1)) \div 2 + (IF pc = "check_inner" THEN 1 + j ELSE 0)

C10_Witness ==
    /\ Checked /\ pc = "branch" /\ N = 3 /\ cmps = 6
    /\ ~ret /\ indices[1] >= Len(s)

====
